---- MODULE Spec2Model ----
(***************************************************************************)
(* A model of cutplace's CID reader (src/cutplace/cid.py): the class Cid,  *)
(* its row loop read(), add_field_format(), add_check(), the accessors and *)
(* the type resolution _create_class().                                    *)
(*                                                                         *)
(* Texts (Python str) are sequences of symbols: the empty text "" is <<>>, *)
(* a symbol is a blank " ", a punctuation mark, a digit or a word standing *)
(* for a run of letters.  strip(), lower() and split() are computed on     *)
(* these sequences as Python computes them on characters.                  *)
(***************************************************************************)
EXTENDS Integers, Sequences, FiniteSets, TLC

VARIABLES
    data_format,                \* Cid._data_format
    field_names,                \* Cid._field_names
    field_formats,              \* Cid._field_formats
    field_name_to_format_map,   \* Cid._field_name_to_format_map
    field_name_to_index_map,    \* Cid._field_name_to_index_map
    check_names,                \* Cid._check_names
    check_name_to_check_map,    \* Cid._check_name_to_check_map
    location,                   \* Cid._location
    field_format_name_to_class_map, \* Cid._field_format_name_to_class_map
    check_name_to_class_map,    \* Cid._check_name_to_class_map
    pc,                         \* "idle", or "reading" inside the loop of read()
    remaining,                  \* rows the iterable of the current read() still holds
    error,                      \* the exception the last call propagated, or None
    read_count,                 \* number of read() calls so far (names the source path)
    dispatched,                 \* rows of the current read() taken from the iterable
    last_input,                 \* the row or the items handled last, and by which method
    inputs,                     \* read() calls, rows and item lists given so far
    check_rows,                 \* description -> where the accepted check row stood
    call,                       \* the last accessor call and its outcome
    qualifiers,                 \* a pair of type qualifiers and their resolutions
    subclasses,                 \* classes that __subclasses__() lists, and the map made of them
    removal,                    \* a call of _tools.attemptToRemove() and how it ended
    choices,                    \* a call of sql.generate_choices() and how it ended
    workers                     \* the threads that share the Cid and their calls of accessors

schema == <<data_format, field_names, field_formats, field_name_to_format_map,
            field_name_to_index_map, check_names, check_name_to_check_map>>
registry == <<field_format_name_to_class_map, check_name_to_class_map>>
history == <<read_count, dispatched, last_input, inputs, check_rows>>
\* The inputs and results of the functions looked at apart from the life of a Cid.
functions == <<qualifiers, subclasses, removal, choices>>
\* The Cid and its life.
cid == <<schema, registry, history, location, pc, remaining, error, call>>
vars == <<cid, functions, workers>>

\* Python's None.
None == [none |-> TRUE]

-----------------------------------------------------------------------------
(* Bounds of the model. *)

\* calls and rows that may change one Cid in its life: each read(), each of its
\* rows, each add_field_format() and add_check() called by itself counts as one
MaxInputs == 5
\* symbols of a type qualifier handed to _create_class
MaxQualifierLen == 3
\* classes that __subclasses__() lists for one base class
MaxSubclasses == 3
\* Threads that share one Cid.
MaxWorkers == 2
\* Paths of the file system attemptToRemove() works on, and calls made of it.
MaxPaths == 3
MaxRemovals == 3
\* Symbols of a rule handed to generate_choices().
MaxRuleLen == 5

-----------------------------------------------------------------------------
(* Texts. *)

EMPTY == <<>>
Blank == " "

\* str.lower() on one character.
lower_char(c) ==
    CASE c = "D" -> "d"
      [] c = "F" -> "f"
      [] c = "C" -> "c"
      [] c = "X" -> "x"
      [] c = "Delimited" -> "delimited"
      [] c = "Format" -> "format"
      [] OTHER -> c

\* str.lower()
lower(s) == [i \in DOMAIN s |-> lower_char(s[i])]

RECURSIVE lstrip(_)
lstrip(s) == IF s /= EMPTY /\ Head(s) = Blank THEN lstrip(Tail(s)) ELSE s

RECURSIVE rstrip(_)
rstrip(s) ==
    IF s /= EMPTY /\ s[Len(s)] = Blank THEN rstrip(SubSeq(s, 1, Len(s) - 1)) ELSE s

\* str.strip()
strip(s) == rstrip(lstrip(s))

\* str.split(sep): the pieces between the separators, at least one piece.
RECURSIVE split_from(_, _, _)
split_from(s, sep, piece) ==
    IF s = EMPTY THEN <<piece>>
    ELSE IF Head(s) = sep THEN <<piece>> \o split_from(Tail(s), sep, EMPTY)
    ELSE split_from(Tail(s), sep, Append(piece, Head(s)))

split(s, sep) == split_from(s, sep, EMPTY)

\* seq[-1]
last_of(seq) == seq[Len(seq)]

\* seq[0]
first_of(seq) == seq[1]

-----------------------------------------------------------------------------
(* Python's tokenizer, as far as validatedPythonName() reads it: the tokens *)
(* of one line that ends without a newline, ENDMARKER right after the last *)
(* token of the text.                                                      *)

Punctuation == {".", ":", ","}
Digits == {"0", "1", "3", "4", "5"}
Quote == "'"

is_digit(c) == c \in Digits
is_letter(c) == c /= Blank /\ c /= Quote /\ c \notin Punctuation /\ c \notin Digits

\* Length of the string literal s starts with, quotes included; 0 when the
\* quote at its head is never closed.
RECURSIVE closing_quote_from(_, _)
closing_quote_from(s, i) ==
    IF i > Len(s) THEN 0
    ELSE IF s[i] = Quote THEN i
    ELSE closing_quote_from(s, i + 1)

\* Length of the longest prefix of s made of symbols satisfying keep.
RECURSIVE run_length(_, _)
run_length(s, keep) ==
    IF s /= EMPTY /\ Head(s) \in keep THEN 1 + run_length(Tail(s), keep) ELSE 0

symbols_of(s) == {s[i] : i \in DOMAIN s}

\* tokenize.generate_tokens(): NAME, NUMBER, STRING and OP tokens, ERRORTOKEN
\* for a quote that is never closed, then ENDMARKER.
RECURSIVE generate_tokens(_)
generate_tokens(s) ==
    IF s = EMPTY THEN << [type |-> "ENDMARKER", text |-> EMPTY] >>
    ELSE IF Head(s) = Blank THEN generate_tokens(Tail(s))
    ELSE IF Head(s) = Quote
        THEN LET n == closing_quote_from(s, 2)
             IN  IF n = 0
                     THEN << [type |-> "ERRORTOKEN", text |-> <<Quote>>] >>
                          \o generate_tokens(Tail(s))
                     ELSE << [type |-> "STRING", text |-> SubSeq(s, 1, n)] >>
                          \o generate_tokens(SubSeq(s, n + 1, Len(s)))
    ELSE IF Head(s) \in Punctuation
        THEN << [type |-> "OP", text |-> <<Head(s)>>] >> \o generate_tokens(Tail(s))
    ELSE IF is_digit(Head(s))
        THEN LET n == run_length(s, Digits)
             IN  << [type |-> "NUMBER", text |-> SubSeq(s, 1, n)] >>
                 \o generate_tokens(SubSeq(s, n + 1, Len(s)))
    ELSE LET n == run_length(s, {c \in symbols_of(s) : is_letter(c) \/ is_digit(c)})
         IN  << [type |-> "NAME", text |-> SubSeq(s, 1, n)] >>
             \o generate_tokens(SubSeq(s, n + 1, Len(s)))

\* tokenize.ISEOF()
ISEOF(type) == type = "ENDMARKER"

\* _tools.validatedPythonName(): the cleaned up name, or the NameError raised.
validatedPythonName(name, value) ==
    LET toky == generate_tokens(strip(value))
        nextToken == toky[1]
    IN  IF ISEOF(nextToken.type)
            THEN [raised |-> "NameError", message |-> "must not be empty"]
        ELSE IF nextToken.type /= "NAME"
            THEN [raised |-> "NameError", message |-> "must contain only ASCII letters"]
        ELSE IF ~ISEOF(toky[2].type)
            THEN [raised |-> "NameError", message |-> "must be a single word"]
        ELSE [raised |-> "", result |-> nextToken.text]

-----------------------------------------------------------------------------
(* errors.InputLocation and the errors raised. *)

\* errors.InputLocation(source_path, has_cell=True)
InputLocation(source_path) == [path |-> source_path, line |-> 0, cell |-> 0]

advance_line(loc) == [loc EXCEPT !.line = @ + 1, !.cell = 0]
advance_cell(loc) == [loc EXCEPT !.cell = @ + 1]
set_cell(loc, new_cell) == [loc EXCEPT !.cell = new_cell]

\* errors.create_caller_input_location(): a location in the calling Python code.
create_caller_input_location == [path |-> "caller", line |-> 0, cell |-> 0]

\* An exception: its class, the statement that raised it, the location it
\* carries and the supplementary ("see also") location.
Error(kind, site, loc, see_also_location) ==
    [kind |-> kind, site |-> site, location |-> loc, see_also |-> see_also_location]

-----------------------------------------------------------------------------
(* The classes of field formats and checks, and their resolution. *)

FieldFormatAppendix == <<"FieldFormat">>
CheckAppendix == <<"Check">>

\* Function f with key k set to v, as a dict assignment does.
dict_set(f, k, v) == [x \in DOMAIN f \cup {k} |-> IF x = k THEN v ELSE f[x]]

\* The subclasses of fields.AbstractFieldFormat and of checks.AbstractCheck: a
\* class object has a module, a name and the file of its source.
FieldFormatClasses ==
    { [module |-> "fields", name |-> <<"Text">> \o FieldFormatAppendix, file |-> "fields.py"],
      [module |-> "fields", name |-> <<"Integer">> \o FieldFormatAppendix, file |-> "fields.py"] }
CheckClasses ==
    { [module |-> "checks", name |-> <<"IsUnique">> \o CheckAppendix, file |-> "checks.py"],
      [module |-> "checks", name |-> <<"DistinctCount">> \o CheckAppendix, file |-> "checks.py"] }

\* What tells two classes apart when the source file is left out.
class_info_without_source(some_class) == <<some_class.module, some_class.name>>

\* Cid._class_info(): the module, the name and the source file of the class.
_class_info(some_class) == <<some_class.module, some_class.name, some_class.file>>

\* The loop of _create_name_to_class_map() over the classes still to process:
\* the map, or the CutplaceError raised for clashing names.
RECURSIVE process_classes(_, _)
process_classes(result, classes_to_process) ==
    IF classes_to_process = <<>> THEN [raised |-> "", result |-> result]
    ELSE LET class_to_process == Head(classes_to_process)
             plain_class_name == last_of(split(class_to_process.name, "."))
         IN  IF plain_class_name \in DOMAIN result
                 THEN IF _class_info(result[plain_class_name]) = _class_info(class_to_process)
                          THEN process_classes(result, Tail(classes_to_process))
                          ELSE [raised |-> "CutplaceError", result |-> None]
                 ELSE process_classes(dict_set(result, plain_class_name, class_to_process),
                                      Tail(classes_to_process))

\* The orders in which the set of the classes may be visited.
orders_of(classes) ==
    {order \in [1..Cardinality(classes) -> classes] :
        \A i, j \in DOMAIN order : order[i] = order[j] => i = j}

\* Cid._create_name_to_class_map() over classes whose names do not clash: the
\* map is the same in whatever order the set is visited.
_create_name_to_class_map(classes) ==
    process_classes(<<>>, CHOOSE order \in orders_of(classes) : TRUE).result

\* The class name taken from the first part of the qualifier (a wrong reading).
class_name_of_first(class_qualifier, class_name_appendix) ==
    first_of(split(class_qualifier, ".")) \o class_name_appendix

\* class_qualifier.split(".")[-1] + class_name_appendix
class_name_of(class_qualifier, class_name_appendix) ==
    last_of(split(class_qualifier, ".")) \o class_name_appendix

\* Cid._create_class(): the class, or the error raised for an unknown one.
_create_class(name_to_class_map, class_qualifier, class_name_appendix, error_to_raise) ==
    LET class_name == class_name_of(class_qualifier, class_name_appendix)
    IN  IF class_name \in DOMAIN name_to_class_map
            THEN [raised |-> "", result |-> name_to_class_map[class_name]]
            ELSE [raised |-> error_to_raise, result |-> None]

_create_field_format_class(field_type) ==
    _create_class(field_format_name_to_class_map, field_type, FieldFormatAppendix,
                  "FieldSyntaxError")

_create_check_class(check_type) ==
    _create_class(check_name_to_class_map, check_type, CheckAppendix, "CheckSyntaxError")

-----------------------------------------------------------------------------
(* data.DataFormat, ranges.Range, the field formats and the checks. *)

FORMAT_FIXED == <<"fixed">>
FORMAT_DELIMITED == <<"delimited">>
VALID_FORMATS == {FORMAT_FIXED, FORMAT_DELIMITED}

\* data.DataFormat(format_name, location): the format, or the error raised.
DataFormat(format_name, loc) ==
    IF format_name \in VALID_FORMATS
        THEN [raised |-> "", result |-> [format |-> format_name, properties |-> <<>>]]
        ELSE [raised |-> "DataFormatSyntaxError", result |-> None]

\* DataFormat.set_property(name, value)
set_property(format, name, value) ==
    [format EXCEPT !.properties = dict_set(@, name, value)]

digit_value(c) ==
    CASE c = "0" -> 0 [] c = "1" -> 1 [] c = "3" -> 3 [] c = "4" -> 4 [] c = "5" -> 5

\* int(text) for a text of digits.
RECURSIVE int_of(_)
int_of(s) ==
    IF s = EMPTY THEN 0 ELSE 10 * int_of(SubSeq(s, 1, Len(s) - 1)) + digit_value(s[Len(s)])

is_number(s) == s /= EMPTY /\ symbols_of(s) \subseteq Digits

\* An optional limit of a range: <<>> for none, <<n>> for n.
limit_of(s) == IF s = EMPTY THEN <<>> ELSE <<int_of(s)>>
is_limit(s) == s = EMPTY \/ is_number(s)

\* One item of a range: "n", "lower:upper", "lower:" or ":upper".
range_item(text) ==
    LET parts == split(strip(text), ":")
        lo == strip(parts[1])
        hi == strip(parts[Len(parts)])
    IN  IF Len(parts) = 1 /\ is_number(lo)
            THEN [raised |-> "", item |-> [lower |-> limit_of(lo), upper |-> limit_of(lo)]]
        ELSE IF Len(parts) = 2 /\ is_limit(lo) /\ is_limit(hi) /\ lo \o hi /= EMPTY
            THEN [raised |-> "", item |-> [lower |-> limit_of(lo), upper |-> limit_of(hi)]]
        ELSE [raised |-> "RangeSyntaxError", item |-> None]

\* ranges.Range(text).items: the (lower, upper) intervals, none for a blank text.
Range(text) ==
    LET parts == IF strip(text) = EMPTY THEN <<>> ELSE split(text, ",")
        parsed == [i \in DOMAIN parts |-> range_item(parts[i])]
    IN  IF \E i \in DOMAIN parsed : parsed[i].raised /= ""
            THEN [raised |-> "RangeSyntaxError", items |-> <<>>]
            ELSE [raised |-> "", items |-> [i \in DOMAIN parsed |-> parsed[i].item]]

\* field_class(field_name, is_allowed_to_be_empty, length, rule, data_format):
\* the field format, or the FieldSyntaxError raised for a broken length.
new_field_format(field_class, field_name, is_allowed_to_be_empty, length, rule) ==
    LET parsed == Range(length)
    IN  IF parsed.raised /= ""
            THEN [raised |-> "FieldSyntaxError", result |-> None]
            ELSE [raised |-> "",
                  result |-> [class |-> field_class.name,
                              field_name |-> field_name,
                              is_allowed_to_be_empty |-> is_allowed_to_be_empty,
                              length |-> parsed.items,
                              rule |-> rule,
                              example |-> EMPTY]]

\* The setter of field_format.example raises FieldValueError for an example the
\* format rejects: an integer field takes digits only.
example_is_valid(field_format, example) ==
    field_format.class = <<"Integer">> \o FieldFormatAppendix => is_number(strip(example))

\* fields.validated_field_name(): the same rules as for a Python name.
validated_field_name(supposed_field_name) ==
    LET validated == validatedPythonName("field name", supposed_field_name)
    IN  IF validated.raised /= ""
            THEN [raised |-> "FieldSyntaxError", result |-> None]
            ELSE [raised |-> "", result |-> validated.result]

\* check_class(description, rule, available_field_names, location_of_definition):
\* the check remembers where it was defined.
new_check(check_class, description, rule, available_field_names, loc) ==
    [class |-> check_class.name, description |-> description, rule |-> rule, location |-> loc]

-----------------------------------------------------------------------------
(* Cid.add_field_format() *)

_EMPTY_INDICATOR == <<"x">>

\* "".join of the parts with sep between them.
RECURSIVE join(_, _)
join(parts, sep) ==
    IF Len(parts) = 0 THEN EMPTY
    ELSE IF Len(parts) = 1 THEN parts[1]
    ELSE parts[1] \o sep \o join(Tail(parts), sep)

\* "if self._data_format is None" taken to be false always.
data_format_is_never_missing == FALSE

\* "if self._data_format is None"
data_format_is_missing == data_format = None

\* "self._data_format.format == data.FORMAT_FIXED"
data_format_is_fixed == data_format /= None /\ data_format.format = FORMAT_FIXED

\* A validation of the field length that lets every length pass.
fixed_length_unchecked(items) == ""

\* The validation of the field length for fixed format: the statement that
\* raises, or "" when the length is a single value of at least 1.
fixed_length_error(items) ==
    IF items /= <<>>
        THEN IF Len(items) = 1 /\ items[1].lower = items[1].upper
                 THEN IF items[1].lower = <<>> THEN "TypeError"
                      ELSE IF items[1].lower[1] < 1 THEN "cid.py:282"
                      ELSE ""
                 ELSE "cid.py:287"
        ELSE "cid.py:290"

\* "if field_name in self._field_name_to_format_map" taken to be false always.
field_name_is_never_used(field_name) == FALSE

\* "if field_name in self._field_name_to_format_map"
field_name_is_used(field_name) == field_name \in DOMAIN field_name_to_format_map

\* The location tracker once the given column of the items (1 the name, 2 the
\* example, ... 6 the rule) is obtained: one advance_cell() for each column
\* after the name that the items hold.
tracker_at(column, item_count) ==
    [location EXCEPT !.cell = @ + (IF item_count >= column THEN column ELSE item_count) - 1]

\* add_field_format() raises: no field is added; constructed is the field format
\* the call had constructed before (None when it raised earlier).
rejected_field(kind, site, loc, tracker, constructed) ==
    [error |-> Error(kind, site, loc, None), location |-> tracker,
     field_name |-> EMPTY, field_format |-> None, constructed |-> constructed]

\* The field type: the validated parts of the type item joined by ".", "Text"
\* for an empty item, or the NameError of a part.
field_type_of(field_type_item) ==
    LET field_type_parts == split(field_type_item, ".")
        validated_parts ==
            [i \in DOMAIN field_type_parts |->
                validatedPythonName("field type part", field_type_parts[i])]
    IN  IF field_type_item = EMPTY THEN [raised |-> "", result |-> <<"Text">>]
        ELSE IF \E i \in DOMAIN validated_parts : validated_parts[i].raised /= ""
            THEN [raised |-> "NameError", result |-> EMPTY]
        ELSE [raised |-> "",
              result |-> join([i \in DOMAIN validated_parts |-> validated_parts[i].result],
                              <<".">>)]

\* What add_field_format() obtains from at least one item.
obtained_items(items) ==
    LET item_count == Len(items)
    IN  [item_count |-> item_count,
         name |-> validated_field_name(items[1]),
         field_example |-> IF item_count >= 2 THEN items[2] ELSE EMPTY,
         empty_text |-> IF item_count >= 3 THEN lower(strip(items[3])) ELSE EMPTY,
         field_length |-> IF item_count >= 4 THEN strip(items[4]) ELSE EMPTY,
         type |-> field_type_of(IF item_count >= 5 THEN strip(items[5]) ELSE EMPTY),
         field_rule |-> IF item_count >= 6 THEN strip(items[6]) ELSE EMPTY]

\* add_field_format() from the constructed field format on: the field name must
\* be new, the example valid, the length fit a fixed format.
add_constructed_field(f, created) ==
    LET tracker == tracker_at(6, f.item_count)
        field_format == IF f.field_example /= EMPTY
                            THEN [created.result EXCEPT !.example = f.field_example]
                            ELSE created.result
    IN  IF created.raised /= ""
            THEN rejected_field(created.raised, "fields.AbstractFieldFormat.__init__", None,
                                tracker, None)
        ELSE IF field_name_is_used(f.name.result)
            THEN rejected_field("FieldSyntaxError", "cid.py:262", set_cell(tracker, 1),
                                set_cell(tracker, 1), created.result)
        ELSE IF f.field_example /= EMPTY /\ ~example_is_valid(created.result, f.field_example)
            THEN rejected_field("CidSyntaxError", "cid.py:271", set_cell(tracker, 2),
                                set_cell(tracker, 2), created.result)
        ELSE IF data_format_is_fixed /\ fixed_length_error(created.result.length) = "TypeError"
            THEN rejected_field("TypeError", "cid.py:281", None, set_cell(tracker, 4),
                                field_format)
        ELSE IF data_format_is_fixed /\ fixed_length_error(created.result.length) /= ""
            THEN rejected_field("FieldSyntaxError", fixed_length_error(created.result.length),
                                set_cell(tracker, 4), set_cell(tracker, 4), field_format)
        ELSE [error |-> None, location |-> set_cell(tracker, 1),
              field_name |-> f.name.result, field_format |-> field_format,
              constructed |-> field_format]

\* field_is_allowed_to_be_empty left at its initial False.
field_is_never_allowed_to_be_empty(empty_text) == FALSE

\* "if field_is_allowed_to_be_empty_text == self._EMPTY_INDICATOR:
\*      field_is_allowed_to_be_empty = True"
field_is_allowed_to_be_empty(empty_text) == empty_text = _EMPTY_INDICATOR

\* add_field_format() from the class of the field type on.
add_field_of_class(f, field_class) ==
    IF field_class.raised /= ""
        THEN rejected_field(field_class.raised, "cid.py:127", None,
                            tracker_at(6, f.item_count), None)
        ELSE add_constructed_field(f,
                new_field_format(field_class.result, f.name.result,
                                 field_is_allowed_to_be_empty(f.empty_text), f.field_length,
                                 f.field_rule))

\* add_field_format() from the obtained items on.
add_obtained_field(f) ==
    IF f.name.raised /= ""
        THEN rejected_field(f.name.raised, "fields.validated_field_name",
                            tracker_at(1, f.item_count), tracker_at(1, f.item_count), None)
    ELSE IF f.empty_text /= _EMPTY_INDICATOR /\ f.empty_text /= EMPTY
        THEN rejected_field("FieldSyntaxError", "cid.py:221",
                            tracker_at(3, f.item_count), tracker_at(3, f.item_count), None)
    ELSE IF f.type.raised /= ""
        THEN rejected_field("FieldSyntaxError", "cid.py:244",
                            tracker_at(5, f.item_count), tracker_at(5, f.item_count), None)
    ELSE add_field_of_class(f, _create_field_format_class(f.type.result))

\* What add_field_format(items) does: the error it raises (None when it adds
\* the field), the location tracker it leaves, the field format it adds and the
\* field format it constructed on the way.
add_field_format(items) ==
    IF data_format_is_missing
        THEN rejected_field("CidSyntaxError", "cid.py:188", location, location, None)
    ELSE IF Len(items) < 1
        THEN rejected_field("FieldSyntaxError", "cid.py:301", location, location, None)
    ELSE add_obtained_field(obtained_items(items))

\* The index of the field added counts the fields before it, from 1.
next_field_index_from_one == Len(field_names) + 1

\* "len(self._field_names)" before the name is appended
next_field_index == Len(field_names)

\* The field name appended although the call raised.
store_field_name_first(outcome) ==
    /\ field_names' = Append(field_names, outcome.field_name)
    /\ IF outcome.error = None
           THEN /\ field_name_to_format_map' =
                       dict_set(field_name_to_format_map, outcome.field_name, outcome.field_format)
                /\ field_name_to_index_map' =
                       dict_set(field_name_to_index_map, outcome.field_name, next_field_index)
                /\ field_formats' = Append(field_formats, outcome.field_format)
           ELSE UNCHANGED <<field_name_to_format_map, field_name_to_index_map, field_formats>>

\* The four collections of fields after add_field_format(): grown by the field
\* added, or as they were when the call raised.
store_field_format(outcome) ==
    IF outcome.error = None
        THEN /\ field_name_to_format_map' =
                    dict_set(field_name_to_format_map, outcome.field_name, outcome.field_format)
             /\ field_name_to_index_map' =
                    dict_set(field_name_to_index_map, outcome.field_name, next_field_index)
             /\ field_names' = Append(field_names, outcome.field_name)
             /\ field_formats' = Append(field_formats, outcome.field_format)
        ELSE UNCHANGED <<field_name_to_format_map, field_name_to_index_map,
                         field_names, field_formats>>

-----------------------------------------------------------------------------
(* Cid.add_check() *)

\* The columns after the description that name a check class (1-based).
check_type_columns(items) ==
    {i \in 2..Len(items) : items[i] \o CheckAppendix \in DOMAIN check_name_to_class_map}

\* The loop over range(1, len(items)) keeps the last column that names a class.
check_type_column(items) ==
    CHOOSE i \in check_type_columns(items) : \A j \in check_type_columns(items) : j <= i

\* The location of the tracker of the Cid as it stands when the error is raised,
\* which a check would have had it kept the tracker itself.
location_of_shared_tracker(existing_check) == set_cell(location, 1)

\* "seeAlsoLocation" of the error for a description used twice.
location_of_existing_check(existing_check) == existing_check.location

\* What add_check(items) does: the error it raises (None when it adds the
\* check), the location tracker it leaves and the check it adds.
add_check(items) ==
    LET item_count == Len(items)
        check_description == items[1]
        type_column == check_type_column(items)
        check_type == items[type_column]
        rule_column == type_column + 1
        check_rule == IF item_count >= 3 THEN items[rule_column] ELSE EMPTY
        check_class == _create_check_class(check_type)
        check == new_check(check_class.result, check_description, check_rule,
                           field_names, location)
        raise(kind, site, loc, see_also, tracker) ==
            [error |-> Error(kind, site, loc, see_also), location |-> tracker,
             check |-> None]
    IN  IF item_count < 2
            THEN raise("CheckSyntaxError", "cid.py:313", location, None, location)
        ELSE IF check_type_columns(items) = {}
            THEN raise("CheckSyntaxError", "cid.py:326", location, None, location)
        ELSE IF item_count >= 3 /\ rule_column > item_count
            THEN raise("IndexError", "cid.py:329", None, None, location)
        ELSE IF check_class.raised /= ""
            THEN raise(check_class.raised, "cid.py:127", None, None, location)
        ELSE IF location = None
            THEN raise("AttributeError", "cid.py:336", None, None, location)
        ELSE IF check_description \in DOMAIN check_name_to_check_map
            THEN raise("CheckSyntaxError", "cid.py:339", set_cell(location, 1),
                       location_of_existing_check(check_name_to_check_map[check_description]),
                       set_cell(location, 1))
        ELSE [error |-> None, location |-> set_cell(location, 1), check |-> check]

\* The two collections of checks after add_check(): grown by the check added,
\* or as they were when the call raised.
store_check(outcome) ==
    IF outcome.error = None
        THEN /\ check_name_to_check_map' =
                    dict_set(check_name_to_check_map, outcome.check.description, outcome.check)
             /\ check_names' = Append(check_names, outcome.check.description)
        ELSE UNCHANGED <<check_names, check_name_to_check_map>>

-----------------------------------------------------------------------------
(* Cid.read(): one pass of its loop per row. *)

\* row[1:] without the six cells added.
row_data_unpadded(row) == Tail(row)

\* (row[1:] + [''] * 6)[:6]
row_data_of(row) == SubSeq(Tail(row) \o [i \in 1..6 |-> EMPTY], 1, 6)

\* row[0] as it stands, without lower().
row_type_as_given(row) == IF row = <<>> THEN EMPTY ELSE row[1]

\* row[0].lower() of a row with cells; a row without cells is not dispatched.
row_type_of(row) == IF row = <<>> THEN EMPTY ELSE lower(row[1])

\* "if name == ''" taken to be false always.
property_name_is_never_missing(name) == FALSE

\* "if name == ''"
property_name_is_missing(name) == name = EMPTY

\* The data format after a data format row, or the error raised.
read_data_format(row_data) ==
    LET name == row_data[1]
        value == row_data[2]
        loc_name == advance_cell(location)
        loc_value == advance_cell(loc_name)
        created == DataFormat(lower(value), loc_value)
    IN  IF property_name_is_missing(name)
            THEN [error |-> Error("DataFormatSyntaxError", "cid.py:153", loc_name, None),
                  location |-> loc_name, data_format |-> data_format]
        ELSE IF data_format = None
            THEN IF created.raised /= ""
                     THEN [error |-> Error(created.raised, "data.DataFormat.__init__",
                                           loc_value, None),
                           location |-> loc_value, data_format |-> data_format]
                     ELSE [error |-> None, location |-> loc_value,
                           data_format |-> created.result]
        ELSE [error |-> None, location |-> loc_value,
              data_format |-> set_property(data_format, lower(name), lower(value))]

\* Whether the loop goes on with the next row: an exception leaves read().
loop_ignores_error(raised) == "reading"

loop_after(raised) == IF raised = None THEN "reading" ELSE "idle"

\* Where the row handled now stands: the source path and the number of the row.
this_row == [path |-> read_count, row |-> dispatched + 1]

\* The end of one pass with "self._location.advance_line()" left out.
end_of_row_on_same_line(outcome) ==
    /\ location' = outcome.location
    /\ error' = outcome.error
    /\ pc' = loop_after(outcome.error)

\* The end of one pass: the line advances unless the row raised.
end_of_row(outcome) ==
    /\ location' = IF outcome.error = None THEN advance_line(outcome.location)
                   ELSE outcome.location
    /\ error' = outcome.error
    /\ pc' = loop_after(outcome.error)

ReadDataFormatRow(row) ==
    /\ row_type_of(row) = <<"d">>
    /\ LET outcome == read_data_format(row_data_of(row))
       IN  /\ data_format' = outcome.data_format
           /\ end_of_row(outcome)
    /\ UNCHANGED <<field_names, field_formats, field_name_to_format_map,
                   field_name_to_index_map, check_names, check_name_to_check_map,
                   check_rows>>

ReadFieldRow(row) ==
    /\ row_type_of(row) = <<"f">>
    /\ LET outcome == add_field_format(row_data_of(row))
       IN  store_field_format(outcome) /\ end_of_row(outcome)
    /\ UNCHANGED <<data_format, check_names, check_name_to_check_map, check_rows>>

ReadCheckRow(row) ==
    /\ row_type_of(row) = <<"c">>
    /\ LET outcome == add_check(row_data_of(row))
       IN  /\ store_check(outcome)
           /\ check_rows' = IF outcome.error = None
                               THEN dict_set(check_rows, outcome.check.description, this_row)
                               ELSE check_rows
           /\ end_of_row(outcome)
    /\ UNCHANGED <<data_format, field_names, field_formats, field_name_to_format_map,
                   field_name_to_index_map>>

ReadOtherRow(row) ==
    /\ row_type_of(row) \notin {<<"d">>, <<"f">>, <<"c">>}
    /\ end_of_row([error |-> IF row_type_of(row) /= EMPTY
                                THEN Error("DataFormatSyntaxError", "cid.py:165", location, None)
                                ELSE None,
                   location |-> location])
    /\ UNCHANGED <<schema, check_rows>>

\* read(source_path, rows) is called: a new location tracker, no row taken yet.
StartRead(row_count) ==
    /\ pc = "idle"
    /\ inputs + 1 + row_count <= MaxInputs
    /\ inputs' = inputs + 1 + row_count
    /\ read_count' = read_count + 1
    /\ location' = InputLocation(read_count + 1)
    /\ pc' = "reading"
    /\ remaining' = row_count
    /\ dispatched' = 0
    /\ error' = None
    /\ last_input' = None
    /\ call' = None
    /\ UNCHANGED <<schema, registry, check_rows, functions, workers>>

\* The loop of read() takes the next row from the iterable.
ReadRow(row) ==
    /\ pc = "reading"
    /\ remaining > 0
    /\ remaining' = remaining - 1
    /\ dispatched' = dispatched + 1
    /\ last_input' = [via |-> "read", cells |-> row]
    /\ \/ ReadDataFormatRow(row)
       \/ ReadFieldRow(row)
       \/ ReadCheckRow(row)
       \/ ReadOtherRow(row)
    /\ UNCHANGED <<registry, read_count, inputs, call, functions, workers>>

\* The iterable is exhausted: read() returns.
ReadReturn ==
    /\ pc = "reading"
    /\ remaining = 0
    /\ pc' = "idle"
    /\ UNCHANGED <<schema, registry, history, location, remaining, error, call, functions, workers>>

\* What add_field_format(items) may do when called by itself: with assertions
\* on, "assert self._location is not None" fails for a Cid that never read;
\* with assertions off the call goes on.
add_field_format_outcomes(items) ==
    IF location = None
        THEN { rejected_field("AssertionError", "cid.py:185", None, location, None),
               add_field_format(items) }
        ELSE { add_field_format(items) }

\* add_field_format(items) called by itself.
AddFieldFormat(items) ==
    /\ pc = "idle"
    /\ inputs < MaxInputs
    /\ inputs' = inputs + 1
    /\ \E outcome \in add_field_format_outcomes(items) :
           /\ store_field_format(outcome)
           /\ location' = outcome.location
           /\ error' = outcome.error
    /\ last_input' = [via |-> "add_field_format", cells |-> items]
    /\ call' = None
    /\ UNCHANGED <<data_format, check_names, check_name_to_check_map, registry, pc,
                   remaining, read_count, dispatched, check_rows, functions, workers>>

\* add_check(items) called by itself.
AddCheck(items) ==
    /\ pc = "idle"
    /\ inputs < MaxInputs
    /\ inputs' = inputs + 1
    /\ LET outcome == add_check(items)
       IN  /\ store_check(outcome)
           /\ check_rows' = IF outcome.error = None
                               THEN dict_set(check_rows, outcome.check.description,
                                             [path |-> 0, row |-> 0])
                               ELSE check_rows
           /\ location' = outcome.location
           /\ error' = outcome.error
    /\ last_input' = [via |-> "add_check", cells |-> items]
    /\ call' = None
    /\ UNCHANGED <<data_format, field_names, field_formats, field_name_to_format_map,
                   field_name_to_index_map, registry, pc, remaining, read_count,
                   dispatched, functions, workers>>

-----------------------------------------------------------------------------
(* The accessors of a Cid. *)

\* The methods and properties class Cid defines.
CidAttributes ==
    { "data_format", "field_names", "field_formats", "check_names", "check_map",
      "_reset_counts", "_class_info", "_create_name_to_class_map", "_create_class",
      "_create_field_format_class", "_create_check_class", "read", "add_field_format",
      "add_check", "field_index", "field_value_for", "field_format_for",
      "field_format_at", "check_for" }

returned(value) == [raised |-> "", result |-> value]
raised_by(kind) == [raised |-> kind, result |-> None]

\* The symbols field names are made of, in the order in which Python compares
\* the strings they stand for.
code_point_order == <<"1", "id", "name", "zip">>

code_point_rank(symbol) == CHOOSE i \in DOMAIN code_point_order : code_point_order[i] = symbol

\* "a < b" for two strings: the first symbol that differs decides, and a proper
\* prefix comes first.
RECURSIVE str_less(_, _)
str_less(a, b) ==
    IF b = <<>> THEN FALSE
    ELSE IF a = <<>> THEN TRUE
    ELSE IF Head(a) = Head(b) THEN str_less(Tail(a), Tail(b))
    ELSE code_point_rank(Head(a)) < code_point_rank(Head(b))

\* The sorted list with one more item put at its place, behind its equals.
RECURSIVE insert_sorted(_, _)
insert_sorted(sorted_items, item) ==
    IF sorted_items = <<>> THEN <<item>>
    ELSE IF str_less(item, Head(sorted_items)) THEN <<item>> \o sorted_items
    ELSE <<Head(sorted_items)>> \o insert_sorted(Tail(sorted_items), item)

RECURSIVE sort_from(_, _)
sort_from(sorted_items, items) ==
    IF items = <<>> THEN sorted_items
    ELSE sort_from(insert_sorted(sorted_items, Head(items)), Tail(items))

\* The items in the order given: "sorted(...)" left out.
as_listed(items) == items

\* sorted(items) for a list of strings
sorted(items) == sort_from(<<>>, items)

\* "%r" % item for a string without quotes in it
repr(item) == <<"'">> \o item \o <<"'">>

\* The loop of humanReadableList() from item itemIndex (counted from 1) on.
RECURSIVE human_readable_from(_, _, _)
human_readable_from(result, items, itemIndex) ==
    IF itemIndex > Len(items) THEN result
    ELSE LET separator == IF itemIndex = Len(items) THEN <<" or ">>
                          ELSE IF itemIndex > 1 THEN <<", ">>
                          ELSE <<>>
         IN  human_readable_from(result \o separator \o repr(items[itemIndex]), items, itemIndex + 1)

\* _tools.humanReadableList(items)
humanReadableList(items) ==
    IF Len(items) = 0 THEN EMPTY
    ELSE IF Len(items) = 1 THEN repr(items[1])
    ELSE human_readable_from(EMPTY, items, 1)

\* The FieldLookupError of field_index(): "unknown field name %r must be
\* replaced by one of: %s".
unknown_field_name(field_name) ==
    [raised |-> "FieldLookupError", result |-> None,
     message |-> [unknown |-> repr(field_name),
                  one_of |-> humanReadableList(sorted(field_names))]]

\* Cid.field_index(field_name)
field_index(field_name) ==
    IF field_name \in DOMAIN field_name_to_index_map
        THEN returned(field_name_to_index_map[field_name])
        ELSE unknown_field_name(field_name)

\* "self.get_field_name_index(field_name)": the attribute is looked up in Cid.
get_field_name_index(field_name) ==
    IF "get_field_name_index" \in CidAttributes
        THEN field_index(field_name)
        ELSE raised_by("AttributeError")

\* Cid.field_value_for(field_name, row); items of a Python list count from 0.
field_value_for(field_name, row) ==
    LET actual_row_count == Len(row)
        expected_row_count == Len(field_names)
        index == get_field_name_index(field_name)
    IN  IF actual_row_count /= expected_row_count THEN raised_by("DataFormatValueError")
        ELSE IF index.raised /= "" THEN index
        ELSE returned(row[index.result + 1])

\* Cid.field_format_for(field_name)
field_format_for(field_name) ==
    IF field_name \in DOMAIN field_name_to_format_map
        THEN returned(field_name_to_format_map[field_name])
        ELSE raised_by("KeyError")

\* Cid.field_format_at(field_index): a negative index counts from the end.
field_format_at(index) ==
    LET count == Len(field_formats)
    IN  IF 0 <= index /\ index < count THEN returned(field_formats[index + 1])
        ELSE IF -count <= index /\ index < 0 THEN returned(field_formats[count + index + 1])
        ELSE raised_by("IndexError")

\* Cid.check_for(check_name)
check_for(check_name) ==
    IF check_name \in DOMAIN check_name_to_check_map
        THEN returned(check_name_to_check_map[check_name])
        ELSE raised_by("KeyError")

\* An accessor is called and returns or raises; only field_value_for() assigns
\* an attribute of the Cid, the location, before it raises for a row of the
\* wrong length.
Access(op, argument, row, outcome) ==
    /\ pc = "idle"
    /\ call' = [op |-> op, argument |-> argument, row |-> row, outcome |-> outcome]
    /\ location' = IF op = "field_value_for" /\ Len(row) /= Len(field_names)
                      THEN create_caller_input_location ELSE location
    /\ UNCHANGED <<schema, registry, history, pc, remaining, error, functions, workers>>

FieldIndex(name) == Access("field_index", name, <<>>, field_index(name))
FieldValueFor(name, row) == Access("field_value_for", name, row, field_value_for(name, row))
FieldFormatFor(name) == Access("field_format_for", name, <<>>, field_format_for(name))
FieldFormatAt(index) == Access("field_format_at", index, <<>>, field_format_at(index))
CheckFor(name) == Access("check_for", name, <<>>, check_for(name))

-----------------------------------------------------------------------------
(* The rows and items the model hands to the Cid. *)

DataFormatRows ==
    { << <<"d">>, <<"format">>, <<"fixed">> >>,
      << <<"D">>, <<"Format">>, <<"Delimited">> >>,
      << <<"d">>, EMPTY, <<"fixed">> >>,
      << <<"d">>, <<"format">>, <<"bogus">> >> }

FieldRows ==
    { << <<"f">>, <<"id">>, <<"1">>, EMPTY, <<"4", ":", "4">>, <<"Integer">>, EMPTY >>,
      << <<"f">>, <<"id">>, <<"1">>, EMPTY, <<"3", ":", "5">>, <<"Integer">>, EMPTY >>,
      << <<"F">>, <<"name">>, EMPTY, <<" ", "X">>, <<"5", " ">> >>,
      << <<"f">>, <<"id">> >>,
      << <<"f">>, <<"id">>, EMPTY, EMPTY, <<"0">> >>,
      << <<"f">>, <<"id">>, EMPTY, EMPTY, <<"3", ":">> >>,
      << <<"f">>, <<"id">>, EMPTY, EMPTY, <<"1", ",", "3">> >>,
      << <<"f">>, <<"id">>, <<"abc">>, EMPTY, <<"3", ":", "5">>, <<"Integer">> >>,
      << <<"f">>, <<"id">>, EMPTY, <<"y">>, <<"4">> >>,
      << <<"f">>, <<"id">>, EMPTY, EMPTY, <<"4">>, <<"pkg", ".", "Integer">> >>,
      << <<"f">>, <<"id">>, EMPTY, EMPTY, <<"4">>, <<"Bogus">> >>,
      << <<"f">>, <<"id">>, EMPTY, EMPTY, <<"4">>, <<"1", ".", "Text">> >>,
      << <<"f">>, <<"id">>, EMPTY, EMPTY, <<"x", ":">> >>,
      << <<"f">>, <<"1", "id">> >>,
      << <<"f">> >> }

CheckRows ==
    { << <<"c">>, <<"desc1">>, EMPTY, <<"IsUnique">>, <<"id">> >>,
      << <<"C">>, <<"desc1">>, <<"IsUnique">> >>,
      << <<"c">>, <<"desc2">>, <<"DistinctCount">>, <<"IsUnique">> >>,
      << <<"c">>, <<"desc2">>, EMPTY, EMPTY, EMPTY, EMPTY, <<"IsUnique">> >>,
      << <<"c">>, <<"desc2">>, <<"Bogus">> >>,
      << <<"c">> >> }

OtherRows == { <<>>, << EMPTY >>, << <<" ">> >>, << <<"x">>, <<"id">> >> }

Rows == DataFormatRows \cup FieldRows \cup CheckRows \cup OtherRows

FieldItems ==
    { <<>>, << <<"name">> >>, << <<"id">>, EMPTY, EMPTY, <<"4">> >>,
      << <<"name">>, EMPTY, <<"X", " ">>, <<"4">>, <<" ">> >> }

CheckItems ==
    { << <<"desc1">> >>,
      << <<"desc1">>, <<"IsUnique">> >>,
      << <<"desc2">>, EMPTY, <<"IsUnique">> >>,
      << <<"desc2">>, <<"IsUnique">>, <<"id">> >> }

\* Rows of a CID without errors.
ValidRows ==
    { << <<"d">>, <<"format">>, <<"fixed">> >>,
      << <<"f">>, <<"id">>, <<"1">>, EMPTY, <<"4", ":", "4">>, <<"Integer">>, EMPTY >>,
      << <<"F">>, <<"name">>, EMPTY, <<" ", "X">>, <<"5", " ">> >>,
      << <<"c">>, <<"desc1">>, EMPTY, <<"IsUnique">>, <<"id">> >>,
      << <<"c">>, <<"desc2">>, <<"DistinctCount">>, <<"IsUnique">> >> }

FieldNames == { <<"id">>, <<"name">>, <<"zip">> }
CheckDescriptions == { <<"desc1">>, <<"desc2">>, <<"desc3">> }
DataRows == { <<>>, << <<"a">> >>, << <<"a">>, <<"b">> >> }
FieldIndexes == -1..2

-----------------------------------------------------------------------------
(* The Cid after __init__(), and its life. *)

\* Cid.__init__() with the given subclasses of AbstractFieldFormat and of
\* AbstractCheck at hand.
NewCid(field_format_classes, check_classes) ==
    /\ data_format = None
    /\ field_names = <<>>
    /\ field_formats = <<>>
    /\ field_name_to_format_map = <<>>
    /\ field_name_to_index_map = <<>>
    /\ check_names = <<>>
    /\ check_name_to_check_map = <<>>
    /\ location = None
    /\ check_name_to_class_map = _create_name_to_class_map(check_classes)
    /\ field_format_name_to_class_map = _create_name_to_class_map(field_format_classes)
    /\ pc = "idle"
    /\ remaining = 0
    /\ error = None
    /\ read_count = 0
    /\ dispatched = 0
    /\ last_input = None
    /\ inputs = 0
    /\ check_rows = <<>>
    /\ call = None

Init ==
    /\ NewCid(FieldFormatClasses, CheckClasses)
    /\ qualifiers = None
    /\ subclasses = None
    /\ removal = None
    /\ choices = None
    /\ workers = None

Next ==
    \/ \E row_count \in 0..MaxInputs : StartRead(row_count)
    \/ \E row \in Rows : ReadRow(row)
    \/ ReadReturn
    \/ \E items \in FieldItems : AddFieldFormat(items)
    \/ \E items \in CheckItems : AddCheck(items)

Spec == Init /\ [][Next]_vars

\* The life of a Cid that is read from rows without errors and then queried.
NextAccess ==
    \/ \E row_count \in 0..MaxInputs : StartRead(row_count)
    \/ \E row \in ValidRows : ReadRow(row)
    \/ ReadReturn
    \/ \E name \in FieldNames : FieldIndex(name)
    \/ \E name \in FieldNames, row \in DataRows : FieldValueFor(name, row)
    \/ \E name \in FieldNames : FieldFormatFor(name)
    \/ \E index \in FieldIndexes : FieldFormatAt(index)
    \/ \E name \in CheckDescriptions : CheckFor(name)

SpecAccess == Init /\ [][NextAccess]_vars

-----------------------------------------------------------------------------
(* The resolution of type qualifiers, for any registry of classes. *)

\* The symbols of a type qualifier: names of classes, which also serve as names
\* of packages, and the dot.
QualifierSymbols == {"Integer", "IsUnique", "."}

\* The type qualifiers: "assert class_qualifier" wants at least one symbol.
Qualifiers == UNION {[1..n -> QualifierSymbols] : n \in 1..MaxQualifierLen}

\* A Cid whose registry holds any classes, at least one of each kind, and two
\* type qualifiers to resolve.
InitResolve ==
    \E field_format_classes \in SUBSET FieldFormatClasses \ {{}},
       check_classes \in SUBSET CheckClasses \ {{}} :
        /\ NewCid(field_format_classes, check_classes)
        /\ \E first, second \in Qualifiers :
            qualifiers = [first |-> first, second |-> second, resolved |-> FALSE,
                          field_format_classes |-> <<>>, check_classes |-> <<>>]
        /\ subclasses = None
        /\ removal = None
        /\ choices = None
        /\ workers = None

\* Both qualifiers are resolved as the type of a field and as the type of a check.
Resolve ==
    /\ ~qualifiers.resolved
    /\ qualifiers' =
           [qualifiers EXCEPT
               !.resolved = TRUE,
               !.field_format_classes = << _create_field_format_class(qualifiers.first),
                                           _create_field_format_class(qualifiers.second) >>,
               !.check_classes = << _create_check_class(qualifiers.first),
                                    _create_check_class(qualifiers.second) >>]
    /\ UNCHANGED <<cid, subclasses, removal, choices, workers>>

NextResolve == Resolve

SpecResolve == InitResolve /\ [][NextResolve]_vars

-----------------------------------------------------------------------------
(* The building of the map from class names to classes, for any subclasses. *)

\* Class objects that a base class may list: the id tells apart two objects
\* that stem from importing the same source twice.
ClassObjects ==
    { [id |-> 1, module |-> "fields", name |-> <<"Text", "FieldFormat">>, file |-> "fields.py"],
      [id |-> 2, module |-> "fields", name |-> <<"Text", "FieldFormat">>, file |-> "fields.py"],
      [id |-> 3, module |-> "plugin", name |-> <<"Text", "FieldFormat">>, file |-> "plugin.py"],
      [id |-> 4, module |-> "fields", name |-> <<"Text", "FieldFormat">>, file |-> "other/fields.py"],
      [id |-> 5, module |-> "fields", name |-> <<"Integer", "FieldFormat">>, file |-> "fields.py"] }

\* What base_class.__subclasses__() may return: class objects, also one twice.
SubclassLists == UNION {[1..n -> ClassObjects] : n \in 0..MaxSubclasses}

\* A Cid, and the subclasses of some base class in the order in which
\* set(base_class.__subclasses__()) hands them out, which may be any.
InitRegistry ==
    /\ NewCid(FieldFormatClasses, CheckClasses)
    /\ qualifiers = None
    /\ removal = None
    /\ choices = None
    /\ workers = None
    /\ \E listed \in SubclassLists :
        \E order \in orders_of({listed[i] : i \in DOMAIN listed}) :
            subclasses = [listed |-> listed, order |-> order, built |-> FALSE,
                          raised |-> "", result |-> <<>>]

\* _create_name_to_class_map() runs over the subclasses.
CreateNameToClassMap ==
    /\ ~subclasses.built
    /\ LET created == process_classes(<<>>, subclasses.order)
       IN  subclasses' = [subclasses EXCEPT !.built = TRUE,
                                            !.raised = created.raised,
                                            !.result = created.result]
    /\ UNCHANGED <<cid, qualifiers, removal, choices, workers>>

NextRegistry == CreateNameToClassMap

SpecRegistry == InitRegistry /\ [][NextRegistry]_vars

-----------------------------------------------------------------------------
(* A Cid that was read and is then shared by threads calling its accessors. *)
(* A thread runs one statement of a method at a time; a method that only   *)
(* reads attributes nobody assigns is one step.                            *)

Workers == 1..MaxWorkers

\* The lines of the Python code the workers call field_value_for() from.
CallSites == 1..2

\* errors.create_caller_input_location() in a thread that called from the given
\* line: path 0 stands for the calling Python code.
caller_input_location(call_site) == [path |-> 0, line |-> call_site, cell |-> 0]

\* The DataFormatValueError of field_value_for() with the location it carries.
row_length_error(loc) == [raised |-> "DataFormatValueError", result |-> None, location |-> loc]

\* The accessors by name.
accessor_outcome(op, argument, row) ==
    CASE op = "field_index" -> field_index(argument)
      [] op = "field_value_for" -> field_value_for(argument, row)
      [] op = "field_format_for" -> field_format_for(argument)
      [] op = "field_format_at" -> field_format_at(argument)
      [] op = "check_for" -> check_for(argument)

\* "if actual_row_count != expected_row_count" of field_value_for()
is_row_of_other_length(op, row) == op = "field_value_for" /\ Len(row) /= Len(field_names)

\* The calls a worker may make.
WorkerCalls ==
    [op : {"field_index", "field_format_for"}, argument : {<<"id">>, <<"zip">>}, row : {<<>>}]
        \cup [op : {"field_value_for"}, argument : {<<"id">>}, row : {<<>>, << <<"a">> >>}]
        \cup [op : {"field_format_at"}, argument : {0, 2}, row : {<<>>}]
        \cup [op : {"check_for"}, argument : {<<"desc1">>, <<"desc3">>}, row : {<<>>}]

\* The Cid is handed to the workers once its read() has returned; each worker
\* is about to make one call.
Share ==
    /\ pc = "idle"
    /\ workers = None
    /\ read_count > 0
    /\ workers' = [w \in Workers |-> [pc |-> "ready"]]
    /\ UNCHANGED <<cid, functions>>

\* A worker calls an accessor. field_value_for() given a row of another length
\* than the fields first assigns self._location (line 369); any other call
\* reads attributes only and returns or raises at once.
WorkerCall(w, c, call_site) ==
    /\ workers /= None
    /\ workers[w].pc = "ready"
    /\ IF is_row_of_other_length(c.op, c.row)
           THEN /\ location' = caller_input_location(call_site)
                /\ workers' = [workers EXCEPT ![w] =
                       [pc |-> "assigned", call_site |-> call_site, call |-> c]]
           ELSE /\ location' = location
                /\ workers' = [workers EXCEPT ![w] =
                       [pc |-> "done", call_site |-> call_site, call |-> c,
                        outcome |-> accessor_outcome(c.op, c.argument, c.row)]]
    /\ UNCHANGED <<schema, registry, history, pc, remaining, error, call, functions>>

\* The worker goes on to "raise errors.DataFormatValueError(..., self._location)":
\* the error takes the location the attribute holds now.
WorkerRaise(w) ==
    /\ workers /= None
    /\ workers[w].pc = "assigned"
    /\ workers' = [workers EXCEPT ![w] =
           [pc |-> "done", call_site |-> @.call_site, call |-> @.call,
            outcome |-> row_length_error(location)]]
    /\ UNCHANGED <<cid, functions>>

NextWorkers ==
    \/ read_count = 0 /\ \E row_count \in 0..MaxInputs : StartRead(row_count)
    \/ \E row \in ValidRows : ReadRow(row)
    \/ ReadReturn
    \/ Share
    \/ \E w \in Workers, c \in WorkerCalls, call_site \in CallSites : WorkerCall(w, c, call_site)
    \/ \E w \in Workers : WorkerRaise(w)

SpecWorkers == Init /\ [][NextWorkers]_vars

-----------------------------------------------------------------------------
(* _tools.attemptToRemove() on a small file system. *)

Paths == 1..MaxPaths

\* What stands at a path: nothing, a file, a directory, or a file in a
\* directory the process must not write to.
PathKinds == {"missing", "file", "directory", "protected"}

\* os.remove(filePath): the errno of the OSError raised ("" when it returns) and
\* the file system afterwards. For a directory the errno depends on the
\* platform (EISDIR on Linux, EPERM on others).
os_remove(files, filePath) ==
    CASE files[filePath] = "file" ->
             { [errno |-> "", files |-> [files EXCEPT ![filePath] = "missing"]] }
      [] files[filePath] = "missing" -> { [errno |-> "ENOENT", files |-> files] }
      [] files[filePath] = "directory" ->
             { [errno |-> "EISDIR", files |-> files], [errno |-> "EPERM", files |-> files] }
      [] files[filePath] = "protected" -> { [errno |-> "EACCES", files |-> files] }

\* "if error.errno != errno.EEXIST: raise": the errno whose OSError is swallowed.
swallowed_errno == "EEXIST"

\* attemptToRemove(filePath): what it raises ("" when it returns) and the file
\* system afterwards.
attemptToRemove(files, filePath) ==
    { [raised |-> IF removed.errno /= "" /\ removed.errno /= swallowed_errno
                      THEN removed.errno ELSE "",
       files |-> removed.files] : removed \in os_remove(files, filePath) }

InitRemove ==
    /\ NewCid(FieldFormatClasses, CheckClasses)
    /\ qualifiers = None
    /\ subclasses = None
    /\ choices = None
    /\ workers = None
    /\ \E files \in [Paths -> PathKinds] :
           removal = [files |-> files, before |-> files, filePath |-> 0, raised |-> "", calls |-> 0]

AttemptToRemove(filePath) ==
    /\ removal.calls < MaxRemovals
    /\ \E outcome \in attemptToRemove(removal.files, filePath) :
           removal' = [files |-> outcome.files, before |-> removal.files, filePath |-> filePath,
                       raised |-> outcome.raised, calls |-> removal.calls + 1]
    /\ UNCHANGED <<cid, qualifiers, subclasses, choices, workers>>

NextRemove == \E filePath \in Paths : AttemptToRemove(filePath)

SpecRemove == InitRemove /\ [][NextRemove]_vars

-----------------------------------------------------------------------------
(* sql.generate_choices() and the functions of _tools it asks for. *)

\* The names the module _tools defines.
ToolsAttributes ==
    { "LOG_LEVEL_NAME_TO_LEVEL_MAP", "NUMBER_DECIMAL_COMMA", "NUMBER_DECIMAL_POINT",
      "NUMBER_INTEGER", "mkdirs", "attemptToRemove", "validatedPythonName",
      "platformVersion", "pythonVersion", "humanReadableList", "tokenizeWithoutSpace",
      "tokenText", "isEofToken", "isCommaToken", "withSuffix" }

\* _tools.tokenizeWithoutSpace(text): the tokens whose text is not blank, and
\* ENDMARKER.
tokenizeWithoutSpace(text) ==
    SelectSeq(generate_tokens(text),
              LAMBDA toky : (toky.type /= "INDENT" /\ strip(toky.text) /= EMPTY)
                                \/ toky.type = "ENDMARKER")

\* _tools.tokenText(toky)
tokenText(toky) ==
    IF toky.type = "STRING" THEN SubSeq(toky.text, 2, Len(toky.text) - 1) ELSE toky.text

\* _tools.isEofToken(someToken)
isEofToken(someToken) == ISEOF(someToken.type)

\* _tools.isCommaToken(someToken)
isCommaToken(someToken) == someToken.type = "OP" /\ someToken.text = <<",">>

\* The loop of generate_choices() with toky = tokens[i]: the text of toky is a
\* choice, the token after it is passed over unless it is the end.
RECURSIVE choices_from(_, _, _)
choices_from(tokens, i, found) ==
    IF isEofToken(tokens[i]) THEN found
    ELSE choices_from(tokens, IF isEofToken(tokens[i + 1]) THEN i + 1 ELSE i + 2,
                      Append(found, tokenText(tokens[i])))

\* The attributes of _tools that generate_choices() asks for, in the order in
\* which it first asks.
attributes_asked == <<"tokenize_without_space", "is_eof_token", "is_comma_token", "token_text">>

\* The first of them that a module with the given names does not define, "" if
\* it defines them all.
first_missing_attribute(attributes) ==
    IF \A i \in DOMAIN attributes_asked : attributes_asked[i] \in attributes THEN ""
    ELSE attributes_asked[CHOOSE i \in DOMAIN attributes_asked :
             /\ attributes_asked[i] \notin attributes
             /\ \A j \in 1..(i - 1) : attributes_asked[j] \in attributes]

\* sql.generate_choices(rule): "_tools.tokenize_without_space" is looked up in
\* the module before anything else happens.
generate_choices(rule) ==
    IF first_missing_attribute(ToolsAttributes) /= ""
        THEN [raised |-> "AttributeError", result |-> <<>>,
              attribute |-> first_missing_attribute(ToolsAttributes)]
        ELSE [raised |-> "", result |-> choices_from(tokenizeWithoutSpace(rule), 1, <<>>),
              attribute |-> ""]

RuleSymbols == {Quote, "a", "b", ",", Blank}

Rules == UNION {[1..n -> RuleSymbols] : n \in 0..MaxRuleLen}

InitChoices ==
    /\ NewCid(FieldFormatClasses, CheckClasses)
    /\ qualifiers = None
    /\ subclasses = None
    /\ removal = None
    /\ workers = None
    /\ \E rule \in Rules :
           choices = [rule |-> rule, generated |-> FALSE, raised |-> "", result |-> <<>>,
                      attribute |-> ""]

GenerateChoices ==
    /\ ~choices.generated
    /\ LET outcome == generate_choices(choices.rule)
       IN  choices' = [rule |-> choices.rule, generated |-> TRUE, raised |-> outcome.raised,
                       result |-> outcome.result, attribute |-> outcome.attribute]
    /\ UNCHANGED <<cid, qualifiers, subclasses, removal, workers>>

NextChoices == GenerateChoices

SpecChoices == InitChoices /\ [][NextChoices]_vars

-----------------------------------------------------------------------------
(* Properties of the Cid. *)

\* Whether the input made add_field_format() run: a direct call or a field row
\* of read().
is_field_input(input) ==
    /\ input /= None
    /\ \/ input.via = "add_field_format"
       \/ input.via = "read" /\ row_type_of(input.cells) = <<"f">>

\* The items such an input handed to add_field_format().
field_items_of(input) ==
    IF input.via = "read" THEN row_data_of(input.cells) ELSE input.cells

\* Whether the input made add_check() run: a direct call or a check row of read().
is_check_input(input) ==
    /\ input /= None
    /\ \/ input.via = "add_check"
       \/ input.via = "read" /\ row_type_of(input.cells) = <<"c">>

\* The items such an input handed to add_check().
check_items_of(input) ==
    IF input.via = "read" THEN row_data_of(input.cells) ELSE input.cells

\* A step that handles one row of read() or the items of one direct call.
HandlesInput == dispatched' = dispatched + 1 \/ (inputs' = inputs + 1 /\ pc' = "idle")

\* A step in which add_field_format() runs, called by read() or by itself.
HandlesFieldItems == HandlesInput /\ is_field_input(last_input')

\* A step in which add_check() runs, called by read() or by itself.
HandlesCheckItems == HandlesInput /\ is_check_input(last_input')

elements_of(seq) == {seq[i] : i \in DOMAIN seq}

pairwise_distinct(seq) == \A i, j \in DOMAIN seq : seq[i] = seq[j] => i = j

\* C1: after any rows and calls, those that raise and repeated read() calls
\* included, the list of field names, the list of field formats and the two
\* maps have the same size, the index map sends the i-th field name to i
\* (counted from 0), and field_index() returns that position.
C1_FieldCollectionsAgree ==
    /\ Len(field_formats) = Len(field_names)
    /\ Cardinality(DOMAIN field_name_to_format_map) = Len(field_names)
    /\ Cardinality(DOMAIN field_name_to_index_map) = Len(field_names)
    /\ \A i \in DOMAIN field_names :
        /\ field_names[i] \in DOMAIN field_name_to_index_map
        /\ field_name_to_index_map[field_names[i]] = i - 1
        /\ field_index(field_names[i]) = returned(i - 1)
        /\ field_names[i] \in DOMAIN field_name_to_format_map
        /\ field_name_to_format_map[field_names[i]] = field_formats[i]

\* Two fields are defined and the input after them raised.
C1_TwoFieldsThenError ==
    /\ Len(field_names) = 2
    /\ error /= None
    /\ field_index(field_names[2]) = returned(1)

\* C2: the field names are pairwise distinct and so are the check names; a
\* field row whose name is the name of a field of the Cid, and a check row whose
\* description is that of a check of the Cid, raises and is not appended.
C2_NamesAreDistinct ==
    [][ /\ pairwise_distinct(field_names) /\ pairwise_distinct(field_names')
        /\ pairwise_distinct(check_names) /\ pairwise_distinct(check_names')
        /\ ( /\ HandlesFieldItems
             /\ field_items_of(last_input') /= <<>>
             /\ field_items_of(last_input')[1] \in elements_of(field_names) )
           => error' /= None /\ field_names' = field_names /\ field_formats' = field_formats
        /\ ( /\ HandlesCheckItems
             /\ check_items_of(last_input') /= <<>>
             /\ check_items_of(last_input')[1] \in elements_of(check_names) )
           => error' /= None /\ check_names' = check_names
      ]_vars

\* A field row was rejected for its name, which a field of the Cid has.
C2_DuplicateFieldRejected ==
    /\ error /= None
    /\ error.site = "cid.py:262"
    /\ field_items_of(last_input)[1] \in elements_of(field_names)

\* C3: a field is appended only to a Cid that has a data format, which only a
\* data format row of read() sets and nothing takes away again; a field row
\* that arrives while the data format is None raises the CidSyntaxError of line
\* 188 and appends nothing (items handed to a Cid that never read may fail the
\* assertion of line 185 before, and append nothing either).
C3_FieldsNeedDataFormat ==
    [][ /\ Len(field_names') > Len(field_names) => data_format /= None
        /\ field_names' /= <<>> => data_format' /= None
        /\ data_format /= None => data_format' /= None
        /\ data_format' /= data_format =>
            /\ last_input' /= None
            /\ last_input'.via = "read"
            /\ row_type_of(last_input'.cells) = <<"d">>
        /\ (HandlesFieldItems /\ data_format = None) =>
            /\ error' /= None
            /\ \/ error'.kind = "CidSyntaxError" /\ error'.site = "cid.py:188"
               \/ error'.kind = "AssertionError" /\ location = None
            /\ UNCHANGED <<field_names, field_formats, field_name_to_format_map,
                           field_name_to_index_map>>
      ]_vars

\* A field row was accepted by a Cid whose data format an earlier row had set.
C3_FieldAcceptedAfterDataFormat ==
    /\ is_field_input(last_input)
    /\ error = None
    /\ field_names /= <<>>
    /\ data_format /= None

\* A length of exactly one interval (lower, upper) with lower = upper >= 1.
is_single_length(length) ==
    /\ Len(length) = 1
    /\ length[1].lower /= <<>>
    /\ length[1].upper = length[1].lower
    /\ length[1].lower[1] >= 1

\* The input is a field row, or the items of a direct call, from which the call
\* constructs a field format whose length is not a single value of at least 1.
has_broken_length(input) ==
    /\ is_field_input(input)
    /\ add_field_format(field_items_of(input)).constructed /= None
    /\ ~is_single_length(add_field_format(field_items_of(input)).constructed.length)

fields_of_fixed_format_have_single_length ==
    data_format_is_fixed => \A i \in DOMAIN field_formats : is_single_length(field_formats[i].length)

\* C4 (as amended): under fixed data format every field of the Cid has a length
\* of exactly one interval with lower = upper >= 1; a field row whose resolved
\* length is absent, unbounded, a proper range, several intervals or a value
\* below 1 raises and is not appended, and the error is a FieldSyntaxError at
\* cell 4 unless the name of the row is in use (FieldSyntaxError at cell 1) or
\* its example is invalid (CidSyntaxError at cell 2), which are raised first.
C4_FixedLengthIsSingleValue ==
    [][ /\ fields_of_fixed_format_have_single_length
        /\ fields_of_fixed_format_have_single_length'
        /\ (HandlesInput /\ data_format_is_fixed /\ has_broken_length(last_input')) =>
            /\ error' /= None
            /\ UNCHANGED <<field_names, field_formats, field_name_to_format_map,
                           field_name_to_index_map>>
            /\ \/ /\ error'.kind = "FieldSyntaxError"
                  /\ error'.site \in {"cid.py:282", "cid.py:287", "cid.py:290"}
                  /\ error'.location.cell = 4
               \/ /\ error'.kind = "FieldSyntaxError"
                  /\ error'.site = "cid.py:262"
                  /\ error'.location.cell = 1
                  /\ field_items_of(last_input')[1] \in elements_of(field_names)
               \/ /\ error'.kind = "CidSyntaxError"
                  /\ error'.site = "cid.py:271"
                  /\ error'.location.cell = 2
      ]_vars

\* Under fixed format a field row with a broken length was rejected at cell 4.
C4_BrokenLengthRejectedAtCell4 ==
    /\ data_format_is_fixed
    /\ error /= None
    /\ error.site \in {"cid.py:282", "cid.py:287", "cid.py:290"}
    /\ error.location.cell = 4
    /\ is_field_input(last_input)

\* C4 (as stated): under fixed data format every field of the Cid has a single
\* length of at least 1, and every field row whose resolved length is not such
\* a length raises an error located at cell 4 and is not appended.
C4_BrokenLengthAlwaysAtCell4 ==
    [][ /\ fields_of_fixed_format_have_single_length'
        /\ (HandlesInput /\ data_format_is_fixed /\ has_broken_length(last_input')) =>
            /\ error' /= None
            /\ error'.location /= None
            /\ error'.location.cell = 4
            /\ UNCHANGED <<field_names, field_formats>>
      ]_vars

\* C5 (as stated): for a row with as many items as the Cid has fields,
\* field_value_for(name, row) returns row[field_index(name)] for every defined
\* field name without raising; for a row of any other length it raises
\* DataFormatValueError.
C5_FieldValueForIsTotal ==
    (call /= None /\ call.op = "field_value_for") =>
        IF Len(call.row) = Len(field_names)
            THEN call.argument \in elements_of(field_names) =>
                    call.outcome = returned(call.row[field_index(call.argument).result + 1])
            ELSE call.outcome.raised = "DataFormatValueError"

\* C6: a row of read() that raises ends the loop: the loop runs only while no
\* row has raised, the row that raises leaves the Cid as it was, and until the
\* next call of read() no further row of the sequence is taken, so none of them
\* changes the data format, the fields or the checks.
C6_RaiseAbortsRead ==
    [][ /\ pc = "reading" => error = None
        /\ (pc = "reading" /\ error' /= None) =>
            /\ pc' = "idle"
            /\ dispatched' = dispatched + 1
            /\ UNCHANGED schema
        /\ (pc = "idle" /\ read_count' = read_count) =>
            /\ pc' = "idle"
            /\ UNCHANGED <<dispatched, remaining>>
        /\ (dispatched' /= dispatched /\ read_count' = read_count) =>
            (pc = "reading" /\ error = None)
      ]_vars

\* A row of read() raised while the iterable still held rows.
C6_RaisedWithRowsLeft ==
    /\ pc = "idle"
    /\ error /= None
    /\ remaining > 0
    /\ dispatched >= 2
    /\ last_input /= None
    /\ last_input.via = "read"

\* C7 (as stated): for check items with a description and at least one later
\* column that names a registered check, add_check() takes the last such column
\* as the type and the column after it as the rule ("" when no column follows)
\* and registers the check, raising nothing but a located syntax error.  Stated
\* for a Cid that has a location tracker, as it has from its first read() on.
C7_LastTypeColumnThenRule ==
    ( /\ is_check_input(last_input)
      /\ location /= None
      /\ Len(check_items_of(last_input)) >= 2
      /\ check_type_columns(check_items_of(last_input)) /= {} ) =>
        LET items == check_items_of(last_input)
            type_column == CHOOSE i \in check_type_columns(items) :
                               \A j \in check_type_columns(items) : j <= i
            rule == IF type_column + 1 <= Len(items) THEN items[type_column + 1] ELSE EMPTY
        IN  IF error = None
                THEN /\ items[1] \in DOMAIN check_name_to_check_map
                     /\ check_name_to_check_map[items[1]].class = items[type_column] \o CheckAppendix
                     /\ check_name_to_check_map[items[1]].rule = rule
                ELSE /\ error.kind \in {"CheckSyntaxError", "CidSyntaxError"}
                     /\ error.location /= None

C9_NoFieldNameIsRejected ==
    [][ (HandlesFieldItems /\ data_format /= None) =>
            /\ (last_input'.via = "add_field_format" /\ last_input'.cells = <<>>) =>
                /\ error' /= None
                /\ error'.kind = "FieldSyntaxError"
                /\ error'.site = "cid.py:301"
                /\ UNCHANGED <<field_names, field_formats, field_name_to_format_map,
                               field_name_to_index_map>>
            /\ (last_input'.via = "read" /\ Len(last_input'.cells) = 1) =>
                /\ error' /= None
                /\ error'.kind = "FieldSyntaxError"
                /\ error'.site = "fields.validated_field_name"
                /\ UNCHANGED <<field_names, field_formats, field_name_to_format_map,
                               field_name_to_index_map>>
      ]_vars

\* add_field_format([]) was called on a Cid with a data format and raised.
C9_NoItemsRejected ==
    /\ data_format /= None
    /\ last_input /= None
    /\ last_input.via = "add_field_format"
    /\ last_input.cells = <<>>
    /\ error /= None
    /\ error.site = "cid.py:301"

\* C9 (as stated): once a data format exists, read() of the row ["f"] and
\* add_field_format([]) both raise the FieldSyntaxError of line 301, the one
\* that says "must at least contain a field name", and add no field.
C9_NoFieldNameIsLine301 ==
    [][ ( /\ HandlesFieldItems
          /\ data_format /= None
          /\ \/ last_input'.via = "add_field_format" /\ last_input'.cells = <<>>
             \/ last_input'.via = "read" /\ Len(last_input'.cells) = 1 ) =>
            /\ error' /= None
            /\ error'.kind = "FieldSyntaxError"
            /\ error'.site = "cid.py:301"
            /\ UNCHANGED <<field_names, field_formats>>
      ]_vars

\* The symbols of the qualifier after its last dot.
RECURSIVE last_segment(_)
last_segment(qualifier) ==
    IF qualifier = EMPTY \/ qualifier[Len(qualifier)] = "." THEN EMPTY
    ELSE Append(last_segment(SubSeq(qualifier, 1, Len(qualifier) - 1)),
                qualifier[Len(qualifier)])

\* C10: for every registry, two type qualifiers with the same last segment
\* resolve alike: _create_field_format_class() returns the same class for both
\* or raises the same kind of error for both, and so does _create_check_class().
C10_LastSegmentDecides ==
    (qualifiers.resolved /\ last_segment(qualifiers.first) = last_segment(qualifiers.second)) =>
        /\ qualifiers.field_format_classes[1] = qualifiers.field_format_classes[2]
        /\ qualifiers.check_classes[1] = qualifiers.check_classes[2]

\* A qualifier with a package and the bare name of its class were resolved, to
\* a class of the registry.
C10_QualifiedAndBareResolved ==
    /\ qualifiers.resolved
    /\ Len(qualifiers.first) = 3
    /\ Len(qualifiers.second) = 1
    /\ last_segment(qualifiers.first) = qualifiers.second
    /\ qualifiers.field_format_classes[1].raised = ""
    /\ qualifiers.field_format_classes[2].raised = ""

\* Two classes that are different implementors under one class name.
are_clashing(first_class, second_class) ==
    /\ first_class.name = second_class.name
    /\ first_class.module /= second_class.module \/ first_class.file /= second_class.file

fields_of_cid == <<field_names, field_formats, field_name_to_format_map, field_name_to_index_map>>
checks_of_cid == <<check_names, check_name_to_check_map>>

\* The statements that raise while a data format row, a field row or a check
\* row is handled.
DataFormatRowSites == {"cid.py:153", "data.DataFormat.__init__"}
FieldRowSites ==
    { "cid.py:188", "fields.validated_field_name", "cid.py:221", "cid.py:244", "cid.py:127",
      "fields.AbstractFieldFormat.__init__", "cid.py:262", "cid.py:271", "cid.py:281",
      "cid.py:282", "cid.py:287", "cid.py:290" }
CheckRowSites == {"cid.py:313", "cid.py:326", "cid.py:329", "cid.py:127", "cid.py:339"}

\* C12: read() dispatches a row by its first cell without regard to case: a row
\* "d" or "D" is handled as a data format row (it sets the data format or fails
\* there, and leaves fields and checks alone), "f" or "F" as a field row, "c" or
\* "C" as a check row; any other tag that is not empty raises the
\* DataFormatSyntaxError of line 165 at the line of the row and leaves data
\* format, fields and checks as they were.
C12_DispatchByTag ==
    [][ (dispatched' = dispatched + 1 /\ last_input'.cells /= <<>>) =>
            LET tag == last_input'.cells[1]
            IN  /\ tag \in {<<"d">>, <<"D">>} =>
                    /\ UNCHANGED <<fields_of_cid, checks_of_cid>>
                    /\ IF error' = None THEN data_format' /= None
                       ELSE error'.site \in DataFormatRowSites /\ data_format' = data_format
                /\ tag \in {<<"f">>, <<"F">>} =>
                    /\ UNCHANGED <<data_format, checks_of_cid>>
                    /\ IF error' = None THEN Len(field_names') = Len(field_names) + 1
                       ELSE error'.site \in FieldRowSites /\ UNCHANGED fields_of_cid
                /\ tag \in {<<"c">>, <<"C">>} =>
                    /\ UNCHANGED <<data_format, fields_of_cid>>
                    /\ IF error' = None THEN Len(check_names') = Len(check_names) + 1
                       ELSE error'.site \in CheckRowSites /\ UNCHANGED checks_of_cid
                /\ (tag \notin {<<"d">>, <<"D">>, <<"f">>, <<"F">>, <<"c">>, <<"C">>}
                        /\ tag /= EMPTY) =>
                    /\ error' /= None
                    /\ error'.kind = "DataFormatSyntaxError"
                    /\ error'.site = "cid.py:165"
                    /\ error'.location = [path |-> read_count, line |-> dispatched, cell |-> 0]
                    /\ UNCHANGED schema
      ]_vars

\* A row with the tag "C" defined a check.
C12_UpperCaseCheckRowAccepted ==
    /\ last_input /= None
    /\ last_input.via = "read"
    /\ last_input.cells /= <<>>
    /\ last_input.cells[1] = <<"C">>
    /\ error = None
    /\ check_names /= <<>>

\* The cell of the row at the given place after the tag, "" past its end.
cell_after_tag(row, place) == IF Len(row) > place THEN row[place + 1] ELSE EMPTY

\* C13: the first data format row with a name creates the DataFormat from its
\* lower-cased value (or fails in DataFormat and creates none); every later one
\* sets the property of the lower-cased name to the lower-cased value on it and
\* changes nothing else of it; a data format row with an empty name raises the
\* DataFormatSyntaxError of line 153 and leaves the data format as it was; no
\* step resets a data format or changes its format.
C13_DataFormatCreatedOnce ==
    [][ /\ data_format /= None =>
            /\ data_format' /= None
            /\ data_format'.format = data_format.format
        /\ ( /\ dispatched' = dispatched + 1
             /\ last_input'.cells /= <<>>
             /\ last_input'.cells[1] \in {<<"d">>, <<"D">>} ) =>
            LET name == cell_after_tag(last_input'.cells, 1)
                value == cell_after_tag(last_input'.cells, 2)
            IN  IF name = EMPTY
                    THEN /\ error' /= None
                         /\ error'.kind = "DataFormatSyntaxError"
                         /\ error'.site = "cid.py:153"
                         /\ data_format' = data_format
                ELSE IF data_format = None
                    THEN \/ /\ error' = None
                            /\ data_format' = [format |-> lower(value), properties |-> <<>>]
                         \/ /\ error' /= None
                            /\ error'.site = "data.DataFormat.__init__"
                            /\ data_format' = None
                ELSE /\ error' = None
                     /\ DOMAIN data_format'.properties =
                            DOMAIN data_format.properties \cup {lower(name)}
                     /\ data_format'.properties[lower(name)] = lower(value)
                     /\ \A key \in DOMAIN data_format.properties \ {lower(name)} :
                            data_format'.properties[key] = data_format.properties[key]
      ]_vars

\* A later data format row, in upper case, set a property of the data format
\* that the first one had created.
C13_LaterRowSetProperty ==
    /\ data_format /= None
    /\ data_format.format = FORMAT_FIXED
    /\ <<"format">> \in DOMAIN data_format.properties
    /\ data_format.properties[<<"format">>] = <<"delimited">>
    /\ last_input /= None
    /\ last_input.via = "read"
    /\ last_input.cells[1] = <<"D">>

\* A row without cells, or one whose tag cell holds nothing but blanks.
is_empty_or_blank_row(row) == IF row = <<>> THEN TRUE ELSE strip(row[1]) = EMPTY

\* C14: a row that is empty, or whose tag cell is empty or blank, is ignored by
\* read(): the step raises nothing, leaves data format, fields and checks as
\* they were and moves the location to the next line.
C14_EmptyOrBlankRowIgnored ==
    [][ ( /\ dispatched' = dispatched + 1
          /\ last_input'.via = "read"
          /\ is_empty_or_blank_row(last_input'.cells) ) =>
            /\ error' = None
            /\ schema' = schema
            /\ location' = advance_line(location)
      ]_vars

\* C15: every error that add_field_format() raises, called by read() for a
\* field row or by itself, is of kind FieldSyntaxError.
C15_EveryFieldErrorIsFieldSyntaxError ==
    [][ (HandlesFieldItems /\ error' /= None) => error'.kind = "FieldSyntaxError" ]_vars

\* The symbols humanReadableList() puts around and between the items.
ListingMarks == {"'", ", ", " or "}

is_listing_mark(symbol) == symbol \in ListingMarks

\* The names a listing shows, in its order; every name here is one symbol.
names_listed(listing) == SelectSeq(listing, LAMBDA symbol : ~is_listing_mark(symbol))

\* The Cid but for the record of the last call of an accessor.
cid_but_call == <<schema, registry, history, location, pc, remaining, error>>

\* C16: field_index(name) returns the position, counted from 0, of a defined
\* name in field_names; for any other name it returns no index and raises
\* FieldLookupError with a message that lists every field name once, in
\* ascending order; the call changes nothing of the Cid. (Only a call of
\* field_index() ends in a state whose last call is one of field_index().)
C16_FieldIndexOrSortedListing ==
    [][ (call' /= None /\ call'.op = "field_index") =>
            /\ cid_but_call' = cid_but_call
            /\ IF call'.argument \in elements_of(field_names)
                   THEN /\ call'.outcome.raised = ""
                        /\ call'.outcome.result \in 0..(Len(field_names) - 1)
                        /\ field_names[call'.outcome.result + 1] = call'.argument
                   ELSE /\ call'.outcome.raised = "FieldLookupError"
                        /\ call'.outcome.result = None
                        /\ LET listed == names_listed(call'.outcome.message.one_of)
                           IN  /\ Len(listed) = Len(field_names)
                               /\ {<<listed[i]>> : i \in DOMAIN listed} = elements_of(field_names)
                               /\ \A i, j \in DOMAIN listed :
                                      i < j => code_point_rank(listed[i]) < code_point_rank(listed[j])
      ]_vars

\* field_index() was asked for an unknown name on a Cid whose two fields were
\* defined in descending order of their names, and listed them ascending.
C16_UnknownNameListedSorted ==
    /\ field_names = << <<"name">>, <<"id">> >>
    /\ call /= None
    /\ call.op = "field_index"
    /\ call.argument = <<"zip">>
    /\ call.outcome.raised = "FieldLookupError"
    /\ call.outcome.message.one_of = <<"'", "id", "'", " or ", "'", "name", "'">>

\* What the call of a worker yields when no other thread runs meanwhile.
sequential_outcome(worker) ==
    IF is_row_of_other_length(worker.call.op, worker.call.row)
        THEN row_length_error(caller_input_location(worker.call_site))
        ELSE accessor_outcome(worker.call.op, worker.call.argument, worker.call.row)

\* C17: while workers share the Cid and call its accessors in any interleaving,
\* no step of a call assigns an attribute of the Cid, and every call that has
\* ended has the outcome it has when it runs alone.
C17_AccessorsWriteNothing ==
    [][ (workers /= None /\ workers' /= None) =>
            /\ schema' = schema
            /\ registry' = registry
            /\ location' = location
            /\ \A w \in Workers :
                   workers'[w].pc = "done" => workers'[w].outcome = sequential_outcome(workers'[w])
      ]_vars

\* C18: attemptToRemove(filePath) returns normally when nothing stands at
\* filePath, and otherwise does what os.remove() does: it removes a file and
\* returns, or raises the OSError of os.remove() and removes nothing.
C18_MissingFileIsNoError ==
    (removal /= None /\ removal.calls > 0) =>
        IF removal.before[removal.filePath] = "missing"
            THEN removal.raised = "" /\ removal.files = removal.before
            ELSE [errno |-> removal.raised, files |-> removal.files]
                     \in os_remove(removal.before, removal.filePath)

\* A literal: a word, or anything without a quote between two quotes.
is_literal(piece) ==
    LET text == strip(piece)
    IN  \/ Len(text) = 1 /\ is_letter(text[1])
        \/ /\ Len(text) >= 2
           /\ text[1] = Quote
           /\ text[Len(text)] = Quote
           /\ \A i \in 2..(Len(text) - 1) : text[i] /= Quote

\* The literal without the blanks around it and without its quotes.
literal_of(piece) ==
    LET text == strip(piece)
    IN  IF text[1] = Quote THEN SubSeq(text, 2, Len(text) - 1) ELSE text

\* A rule made of literals with commas between them, or of nothing.
is_rule_of_literals(rule) ==
    \/ strip(rule) = EMPTY
    \/ \A i \in DOMAIN split(rule, ",") : is_literal(split(rule, ",")[i])

literals_of(rule) ==
    IF strip(rule) = EMPTY THEN <<>>
    ELSE [i \in DOMAIN split(rule, ",") |-> literal_of(split(rule, ",")[i])]

\* C19: for a rule made of n literals with commas between them generate_choices()
\* returns these n literals in their order, without the blanks around them and
\* without the quotes of those that are quoted; for an empty rule it returns
\* the empty sequence.
C19_ChoicesAreTheLiterals ==
    (choices /= None /\ choices.generated /\ is_rule_of_literals(choices.rule)) =>
        /\ choices.raised = ""
        /\ choices.result = literals_of(choices.rule)

\* The column of a field row, the tag counted as 0, that the errors raised by
\* the given statements complain about.
offending_column(site) ==
    CASE site = "fields.validated_field_name" -> 1
      [] site = "cid.py:262" -> 1
      [] site = "cid.py:271" -> 2
      [] site = "cid.py:221" -> 3
      [] site \in {"cid.py:282", "cid.py:287", "cid.py:290"} -> 4
      [] site = "cid.py:244" -> 5
      [] OTHER -> 0

\* C20: every error about a column of a field row that read() raises carries
\* the cell of that column, counted from the cell of the tag where the tracker
\* stands when the row is taken: name 1, example 2, empty flag 3, length 4,
\* type 5.
C20_ErrorCellIsOffendingColumn ==
    [][ ( /\ HandlesFieldItems
          /\ last_input'.via = "read"
          /\ error' /= None
          /\ offending_column(error'.site) /= 0 ) =>
            error'.location.cell - location.cell = offending_column(error'.site)
      ]_vars

\* A step of read() that takes a row from the iterable.
TakesRow == dispatched' = dispatched + 1 /\ last_input'.via = "read"

\* The line of the tracker right after errors.InputLocation() made it.
initial_line == InputLocation(0).line

item_or_empty(items, i) == IF Len(items) >= i THEN items[i] ELSE EMPTY

\* C22: a field that add_field_format() accepts has the type "Text" when the
\* type column is empty or blank, the stripped rule column as its rule ("" when
\* the column is missing), and is allowed to be empty exactly when the stripped,
\* lower-cased empty flag is "x", the flag being "x" or blank; for any other
\* flag the call raises and adds no field, with the FieldSyntaxError of line
\* 221 when a data format exists and the name is valid.
C22_OptionalColumnsDefault ==
    [][ HandlesFieldItems =>
            LET items == field_items_of(last_input')
                flag == lower(strip(item_or_empty(items, 3)))
                type_item == strip(item_or_empty(items, 5))
                rule == strip(item_or_empty(items, 6))
            IN  /\ error' = None =>
                       LET added == field_formats'[Len(field_formats')]
                       IN  /\ Len(field_formats') = Len(field_formats) + 1
                           /\ type_item = EMPTY => added.class = <<"Text">> \o FieldFormatAppendix
                           /\ added.rule = rule
                           /\ Len(items) < 6 => added.rule = EMPTY
                           /\ flag \in {EMPTY, <<"x">>}
                           /\ added.is_allowed_to_be_empty = (flag = <<"x">>)
                /\ flag \notin {EMPTY, <<"x">>} =>
                       /\ error' /= None
                       /\ <<field_names, field_formats, field_name_to_format_map,
                            field_name_to_index_map>>' =
                          <<field_names, field_formats, field_name_to_format_map,
                            field_name_to_index_map>>
                       /\ ( /\ data_format /= None
                            /\ location /= None
                            /\ validated_field_name(items[1]).raised = "" ) =>
                              /\ error'.kind = "FieldSyntaxError"
                              /\ error'.site = "cid.py:221"
      ]_vars

\* add_field_format() accepted items with the flag "X ", a blank type and no
\* rule: the field is a Text field with the rule "" that may be empty.
C22_BlankTypeAndUpperCaseFlagAccepted ==
    /\ last_input /= None
    /\ last_input.via = "add_field_format"
    /\ last_input.cells = << <<"name">>, EMPTY, <<"X", " ">>, <<"4">>, <<" ">> >>
    /\ error = None
    /\ field_formats /= <<>>
    /\ field_formats[Len(field_formats)].class = <<"Text">> \o FieldFormatAppendix
    /\ field_formats[Len(field_formats)].rule = EMPTY
    /\ field_formats[Len(field_formats)].is_allowed_to_be_empty

\* The sequence grew by one item at its end.
grew_by_one(before, after) ==
    /\ Len(after) = Len(before) + 1
    /\ SubSeq(after, 1, Len(before)) = before

\* The dict got one more key and kept the values of the keys it had.
got_one_key(before, after, key) ==
    /\ key \notin DOMAIN before
    /\ DOMAIN after = DOMAIN before \cup {key}
    /\ \A k \in DOMAIN before : after[k] = before[k]

\* C23: a call of add_field_format() or add_check(), by read() or direct, that
\* raises leaves the data format, the four collections of fields and the two of
\* checks as they were; one that returns adds one entry to each of the four
\* collections of fields, or to each of the two of checks, and changes nothing
\* else of them.
C23_AddIsAllOrNothing ==
    [][ /\ ((HandlesFieldItems \/ HandlesCheckItems) /\ error' /= None) => schema' = schema
        /\ (HandlesFieldItems /\ error' = None) =>
               /\ <<data_format, check_names, check_name_to_check_map>>' =
                  <<data_format, check_names, check_name_to_check_map>>
               /\ grew_by_one(field_names, field_names')
               /\ grew_by_one(field_formats, field_formats')
               /\ got_one_key(field_name_to_format_map, field_name_to_format_map',
                              field_names'[Len(field_names')])
               /\ got_one_key(field_name_to_index_map, field_name_to_index_map',
                              field_names'[Len(field_names')])
        /\ (HandlesCheckItems /\ error' = None) =>
               /\ <<data_format, field_names, field_formats, field_name_to_format_map,
                    field_name_to_index_map>>' =
                  <<data_format, field_names, field_formats, field_name_to_format_map,
                    field_name_to_index_map>>
               /\ grew_by_one(check_names, check_names')
               /\ got_one_key(check_name_to_check_map, check_name_to_check_map',
                              check_names'[Len(check_names')])
      ]_vars

\* add_field_format() raised on a Cid that holds a field and a check, which are
\* still there.
C23_RejectedFieldAfterFieldAndCheck ==
    /\ is_field_input(last_input)
    /\ error /= None
    /\ Len(field_names) = 1
    /\ Len(field_formats) = 1
    /\ Len(check_names) = 1
    /\ data_format /= None

====
